---- MODULE Spec2Model ----
(***************************************************************************)
(* Model of lib-python/2.7/urlparse.py: the decomposition engine with its   *)
(* bounded result cache (urlsplit, urlparse), reconstruction (urlunsplit,   *)
(* urlunparse), relative resolution (urljoin), fragment stripping           *)
(* (urldefrag) and the percent codecs (quote_from_bytes, unquote_to_bytes). *)
(*                                                                         *)
(* Text is a sequence of one-character strings; positions handed to the     *)
(* helper operators are 0-based, as in the source.  Byte strings handled    *)
(* by the percent codecs are sequences of byte values 0..255.               *)
(***************************************************************************)
EXTENDS Integers, Sequences, FiniteSets, TLC

VARIABLES
    _parse_cache,    \* urlparse.py:85   key -> SplitResult
    _safe_quoters,   \* urlparse.py:630  safe -> Quoter memo (byte -> token)
    call,            \* the call made last: [op, args]
    ret,             \* what that call returned: [raised, v]
    hits,            \* outcome of each cache lookup made by that call
    evicted,         \* cache keys discarded by an overflow clear in that call
    merged,          \* path merges done by that call (resolved paths)
    cursor           \* number of walk URIs the client has requested so far

vars == <<_parse_cache, _safe_quoters, call, ret, hits, evicted, merged, cursor>>

(***************************************************************************)
(* Bounds of the model.                                                    *)
(***************************************************************************)
MaxWalk == 21        \* walk URIs the client requests, in order
MaxTail == 4         \* length of the free part of a decomposed URI
MaxText == 4         \* length of the free part of a text to round-trip
MaxBaseSegs == 1     \* path segments of the free part of a base URI
MaxRefSegs == 2      \* path segments of the free part of a reference
MaxParamText == 4    \* length of the free part of a text handed to urlparse
MaxPlus == 4         \* length of a text handed to quote_plus
WarmWalk == 18       \* walk URIs decomposed before the threads start
MaxBytes == 4        \* length of a byte string handed to the codecs

(***************************************************************************)
(* Python string primitives.                                               *)
(***************************************************************************)
SetMin(P) == CHOOSE x \in P : \A y \in P : x <= y
SetMax(P) == CHOOSE x \in P : \A y \in P : x >= y

\* c in s
In(c, s) == \E j \in 1..Len(s) : s[j] = c

\* s.find(c, start): 0-based position of the first c at or after start, or -1
Find(s, c, start) ==
    LET P == {j \in (start + 1)..Len(s) : s[j] = c}
    IN  IF P = {} THEN -1 ELSE SetMin(P) - 1

\* s.rfind(c)
RFind(s, c) ==
    LET P == {j \in 1..Len(s) : s[j] = c}
    IN  IF P = {} THEN -1 ELSE SetMax(P) - 1

\* s[a:b] for 0 <= a, 0 <= b
Slice(s, a, b) == SubSeq(s, a + 1, IF b > Len(s) THEN Len(s) ELSE b)

\* s[a:]
From(s, a) == Slice(s, a, Len(s))

\* s.split(c)
RECURSIVE Split(_, _)
Split(s, c) ==
    LET i == Find(s, c, 0)
    IN  IF i < 0 THEN <<s>>
        ELSE <<Slice(s, 0, i)>> \o Split(From(s, i + 1), c)

\* s.split(c, 1) when c occurs in s
Split1(s, c) ==
    LET i == Find(s, c, 0)
    IN  IF i < 0 THEN <<s>> ELSE <<Slice(s, 0, i), From(s, i + 1)>>

\* sep.join(segs)
RECURSIVE Join(_, _)
Join(segs, sep) ==
    IF segs = <<>> THEN <<>>
    ELSE IF Len(segs) = 1 THEN segs[1]
    ELSE segs[1] \o sep \o Join(Tail(segs), sep)

UpperLetters ==
    <<"A", "B", "C", "D", "E", "F", "G", "H", "I", "J", "K", "L", "M",
      "N", "O", "P", "Q", "R", "S", "T", "U", "V", "W", "X", "Y", "Z">>
LowerLetters ==
    <<"a", "b", "c", "d", "e", "f", "g", "h", "i", "j", "k", "l", "m",
      "n", "o", "p", "q", "r", "s", "t", "u", "v", "w", "x", "y", "z">>
Digits == <<"0", "1", "2", "3", "4", "5", "6", "7", "8", "9">>

Range(f) == {f[x] : x \in DOMAIN f}

\* s.lower()
Lower(s) ==
    [j \in 1..Len(s) |->
        IF \E k \in 1..26 : UpperLetters[k] = s[j]
        THEN LowerLetters[CHOOSE k \in 1..26 : UpperLetters[k] = s[j]]
        ELSE s[j]]

(***************************************************************************)
(* Scheme classification tables.                                           *)
(***************************************************************************)
uses_relative ==
    { <<>>, <<"f","t","p">>, <<"h","t","t","p">>,
      <<"g","o","p","h","e","r">>, <<"n","n","t","p">>, <<"i","m","a","p">>,
      <<"w","a","i","s">>, <<"f","i","l","e">>, <<"h","t","t","p","s">>,
      <<"s","h","t","t","p">>, <<"m","m","s">>,
      <<"p","r","o","s","p","e","r","o">>, <<"r","t","s","p">>,
      <<"r","t","s","p","u">>, <<"s","f","t","p">>, <<"s","v","n">>,
      <<"s","v","n","+","s","s","h">>, <<"w","s">>, <<"w","s","s">> }

uses_netloc ==
    { <<>>, <<"f","t","p">>, <<"h","t","t","p">>,
      <<"g","o","p","h","e","r">>, <<"n","n","t","p">>,
      <<"t","e","l","n","e","t">>, <<"i","m","a","p">>, <<"w","a","i","s">>,
      <<"f","i","l","e">>, <<"m","m","s">>, <<"h","t","t","p","s">>,
      <<"s","h","t","t","p">>, <<"s","n","e","w","s">>,
      <<"p","r","o","s","p","e","r","o">>, <<"r","t","s","p">>,
      <<"r","t","s","p","u">>, <<"r","s","y","n","c">>, <<"s","v","n">>,
      <<"s","v","n","+","s","s","h">>, <<"s","f","t","p">>, <<"n","f","s">>,
      <<"g","i","t">>, <<"g","i","t","+","s","s","h">>, <<"w","s">>,
      <<"w","s","s">> }

uses_params ==
    { <<>>, <<"f","t","p">>, <<"h","d","l">>,
      <<"p","r","o","s","p","e","r","o">>, <<"h","t","t","p">>,
      <<"i","m","a","p">>, <<"h","t","t","p","s">>, <<"s","h","t","t","p">>,
      <<"r","t","s","p">>, <<"r","t","s","p","u">>, <<"s","i","p">>,
      <<"s","i","p","s">>, <<"m","m","s">>, <<"s","f","t","p">>,
      <<"t","e","l">> }

scheme_chars ==
    Range(LowerLetters) \cup Range(UpperLetters) \cup Range(Digits)
        \cup {"+", "-", "."}

MAX_CACHE_SIZE == 20

EmptyMap == <<>>

(***************************************************************************)
(* Decomposition engine.                                                   *)
(***************************************************************************)
\* _splitnetloc(url, start): <<domain, rest>>
_splitnetloc(url, start) ==
    LET W == {Find(url, c, start) : c \in {"/", "?", "#"}} \ {-1}
        delim == SetMin(W \cup {Len(url)})
    IN  <<Slice(url, start, delim), From(url, delim)>>

\* the bracket test of urlsplit, lines 336 and 354
BadBrackets(netloc) ==
    \/ In("[", netloc) /\ ~In("]", netloc)
    \/ In("]", netloc) /\ ~In("[", netloc)

\* a split that takes the query before the fragment
SplitRest_query_first(scheme, netloc, url, allow_fragments) ==
    LET qsplit == In("?", url)
        url1 == IF qsplit THEN Split1(url, "?")[1] ELSE url
        query == IF qsplit THEN Split1(url, "?")[2] ELSE <<>>
        fsplit == allow_fragments /\ In("#", url1)
        url2 == IF fsplit THEN Split1(url1, "#")[1] ELSE url1
        fragment == IF fsplit THEN Split1(url1, "#")[2] ELSE <<>>
    IN  [raised |-> FALSE, v |-> <<scheme, netloc, url2, query, fragment>>]

\* lines 338-342 / 356-360: fragment, then query, then the result tuple
SplitRest(scheme, netloc, url, allow_fragments) ==
    LET fsplit == allow_fragments /\ In("#", url)
        url1 == IF fsplit THEN Split1(url, "#")[1] ELSE url
        fragment == IF fsplit THEN Split1(url, "#")[2] ELSE <<>>
        qsplit == In("?", url1)
        url2 == IF qsplit THEN Split1(url1, "?")[1] ELSE url1
        query == IF qsplit THEN Split1(url1, "?")[2] ELSE <<>>
    IN  [raised |-> FALSE, v |-> <<scheme, netloc, url2, query, fragment>>]

\* lines 334-337 / 352-355: the authority, when the text begins with //
SplitNetloc(scheme, url, allow_fragments) ==
    IF Slice(url, 0, 2) = <<"/", "/">>
    THEN LET nl == _splitnetloc(url, 2)
         IN  IF BadBrackets(nl[1])
             THEN [raised |-> TRUE, v |-> <<"ValueError">>]
             ELSE SplitRest(scheme, nl[1], nl[2], allow_fragments)
    ELSE SplitRest(scheme, <<>>, url, allow_fragments)

\* a fast path that skips the bracket test
SplitHttp_unchecked(url, i, allow_fragments) ==
    LET rest == From(url, i + 1)
        nl == IF Slice(rest, 0, 2) = <<"/", "/">>
              THEN _splitnetloc(rest, 2) ELSE <<<<>>, rest>>
    IN  SplitRest(Lower(Slice(url, 0, i)), nl[1], nl[2], allow_fragments)

\* lines 331-344: the 'http' fast path
SplitHttp(url, i, allow_fragments) ==
    SplitNetloc(Lower(Slice(url, 0, i)), From(url, i + 1), allow_fragments)

\* a loop that looks at the first character only
IsScheme_first_char(prefix) == prefix[1] \in scheme_chars

\* lines 345-351: the scheme-character loop
IsScheme(prefix) == \A j \in 1..Len(prefix) : prefix[j] \in scheme_chars

\* lines 328-362 of urlsplit: what a cache miss computes
SplitBody(url, scheme, allow_fragments) ==
    LET i == Find(url, ":", 0)
    IN  IF i > 0 /\ Slice(url, 0, i) = <<"h", "t", "t", "p">>
        THEN SplitHttp(url, i, allow_fragments)
        ELSE IF i > 0 /\ IsScheme(Slice(url, 0, i))
        THEN SplitNetloc(Lower(Slice(url, 0, i)), From(url, i + 1),
                         allow_fragments)
        ELSE SplitNetloc(scheme, url, allow_fragments)

\* a clear that forgets the quoter tables
clear_cache_parse_only(c) == [cache |-> EmptyMap, quoters |-> c.quoters]

\* clear_cache() on a pair of caches, lines 88-91
clear_cache(c) == [cache |-> EmptyMap, quoters |-> EmptyMap]

\* an overflow test that lets the cache grow one entry too far
CacheFull_gt(cache) == Cardinality(DOMAIN cache) > MAX_CACHE_SIZE

\* len(_parse_cache) >= MAX_CACHE_SIZE, line 326
CacheFull(cache) == Cardinality(DOMAIN cache) >= MAX_CACHE_SIZE

\* a key made of the text alone
CacheKey_url_only(url, scheme, allow_fragments, ukind, skind) ==
    <<url, <<>>, TRUE, "str", "str">>

\* a key that leaves allow_fragments out
CacheKey_without_flag(url, scheme, allow_fragments, ukind, skind) ==
    <<url, scheme, TRUE, ukind, skind>>

\* line 322: key = url, scheme, allow_fragments, type(url), type(scheme)
CacheKey(url, scheme, allow_fragments, ukind, skind) ==
    <<url, scheme, allow_fragments, ukind, skind>>

\* lines 323-325: the entry under key is returned.  A cached SplitResult
\* is a 5-tuple, hence always true in the test of line 324.
CacheHit(c, key) ==
    [cache |-> c.cache, quoters |-> c.quoters,
     raised |-> FALSE, v |-> c.cache[key],
     hits |-> <<TRUE>>, evicted |-> {}, merged |-> <<>>]

\* a miss that puts the overflow clear after the computation: an
\* exception leaves the caches c as they were
CacheMiss_clear_on_store(c, c1, key, r) ==
    [cache |-> IF r.raised THEN c.cache ELSE (key :> r.v) @@ c1.cache,
     quoters |-> IF r.raised THEN c.quoters ELSE c1.quoters,
     raised |-> r.raised, v |-> r.v,
     hits |-> <<FALSE>>,
     evicted |-> IF CacheFull(c.cache) THEN DOMAIN c.cache ELSE {},
     merged |-> <<>>]

\* lines 326-362: a miss on the caches c; c1 is c after the overflow test
\* of lines 326-327 and r what lines 328-360 compute.  An exception leaves
\* the function before the store of line 361.
CacheMiss(c, c1, key, r) ==
    [cache |-> IF r.raised THEN c1.cache ELSE (key :> r.v) @@ c1.cache,
     quoters |-> c1.quoters,
     raised |-> r.raised, v |-> r.v,
     hits |-> <<FALSE>>,
     evicted |-> IF CacheFull(c.cache) THEN DOMAIN c.cache ELSE {},
     merged |-> <<>>]

\* lines 326-327
ClearIfFull(c) ==
    IF CacheFull(c.cache) THEN clear_cache(c)
    ELSE [cache |-> c.cache, quoters |-> c.quoters]

\* urlsplit(url, scheme, allow_fragments) run on the caches c; ukind and
\* skind are type(url) and type(scheme)
urlsplit(c, url, scheme, allow_fragments, ukind, skind) ==
    IF CacheKey(url, scheme, allow_fragments, ukind, skind) \in DOMAIN c.cache
    THEN CacheHit(c, CacheKey(url, scheme, allow_fragments, ukind, skind))
    ELSE CacheMiss(c, ClearIfFull(c),
                   CacheKey(url, scheme, allow_fragments, ukind, skind),
                   SplitBody(url, scheme, allow_fragments))

\* a split at the first ';' wherever the '/' are
_splitparams_first_semicolon(url) ==
    <<Slice(url, 0, Find(url, ";", 0)), From(url, Find(url, ";", 0) + 1)>>

\* _splitparams(url), lines 281-288
_splitparams(url) ==
    IF In("/", url)
    THEN IF Find(url, ";", RFind(url, "/")) < 0 THEN <<url, <<>>>>
         ELSE <<Slice(url, 0, Find(url, ";", RFind(url, "/"))),
                From(url, Find(url, ";", RFind(url, "/")) + 1)>>
    ELSE <<Slice(url, 0, Find(url, ";", 0)),
           From(url, Find(url, ";", 0) + 1)>>

\* lines 272-277: the six components made from a SplitResult s
ParseOf(s) ==
    IF s[1] \in uses_params /\ In(";", s[3])
    THEN <<s[1], s[2], _splitparams(s[3])[1], _splitparams(s[3])[2],
           s[4], s[5]>>
    ELSE <<s[1], s[2], s[3], <<>>, s[4], s[5]>>

\* lines 272-278 applied to what urlsplit did
Parsed(r) == [r EXCEPT !.v = IF r.raised THEN r.v ELSE ParseOf(r.v)]

\* urlparse(url, scheme, allow_fragments), lines 270-278
urlparse(c, url, scheme, allow_fragments, ukind, skind) ==
    Parsed(urlsplit(c, url, scheme, allow_fragments, ukind, skind))

(***************************************************************************)
(* Reconstruction engine.                                                  *)
(***************************************************************************)
\* line 385: netloc or (scheme and scheme in uses_netloc and url[:2] != '//')
WritesNetloc(scheme, netloc, url) ==
    \/ netloc # <<>>
    \/ /\ scheme # <<>>
       /\ scheme \in uses_netloc
       /\ Slice(url, 0, 2) # <<"/", "/">>

\* urlunsplit((scheme, netloc, url, query, fragment)), lines 383-395
urlunsplit(c) ==
    LET scheme == c[1]
        netloc == c[2]
        url0 == c[3]
        query == c[4]
        fragment == c[5]
        url1 == IF WritesNetloc(scheme, netloc, url0)
                THEN <<"/", "/">> \o netloc \o
                     (IF url0 # <<>> /\ Slice(url0, 0, 1) # <<"/">>
                      THEN <<"/">> \o url0 ELSE url0)
                ELSE url0
        url2 == IF scheme # <<>> THEN scheme \o <<":">> \o url1 ELSE url1
        url3 == IF query # <<>> THEN url2 \o <<"?">> \o query ELSE url2
    IN  IF fragment # <<>> THEN url3 \o <<"#">> \o fragment ELSE url3

\* urlunparse((scheme, netloc, url, params, query, fragment)), lines 370-374
urlunparse(c) ==
    LET url == IF c[4] # <<>> THEN c[3] \o <<";">> \o c[4] ELSE c[3]
    IN  urlunsplit(<<c[1], c[2], url, c[5], c[6]>>)

(***************************************************************************)
(* Relative resolution engine.                                             *)
(***************************************************************************)
\* lines 428-432: the base path's segments without its last, "file", one
BaseParts(bpath) ==
    LET parts == Split(bpath, "/")
    IN  IF parts[Len(parts)] # <<>>
        THEN SubSeq(parts, 1, Len(parts) - 1) ELSE parts

\* line 441: segments[1:-1] = filter(None, segments[1:-1])
FilterInterior(segments) ==
    IF Len(segments) <= 2 THEN segments
    ELSE <<segments[1]>>
         \o SelectSeq(SubSeq(segments, 2, Len(segments) - 1),
                      LAMBDA seg : seg # <<>>)
         \o <<segments[Len(segments)]>>

\* lines 435-441
Segments(bpath, path) ==
    IF Slice(path, 0, 1) = <<"/">> THEN Split(path, "/")
    ELSE FilterInterior(BaseParts(bpath) \o Split(path, "/"))

\* a walk that keeps a '..' it cannot pop
RECURSIVE Resolve_keep_excess(_, _)
Resolve_keep_excess(segments, resolved_path) ==
    IF segments = <<>> THEN resolved_path
    ELSE LET seg == Head(segments)
         IN  IF seg = <<".", ".">>
             THEN Resolve_keep_excess(Tail(segments),
                          IF resolved_path = <<>> THEN <<seg>>
                          ELSE SubSeq(resolved_path, 1,
                                      Len(resolved_path) - 1))
             ELSE IF seg = <<".">>
             THEN Resolve_keep_excess(Tail(segments), resolved_path)
             ELSE Resolve_keep_excess(Tail(segments),
                                      Append(resolved_path, seg))

\* lines 443-456: the walk over the segments
RECURSIVE Resolve(_, _)
Resolve(segments, resolved_path) ==
    IF segments = <<>> THEN resolved_path
    ELSE LET seg == Head(segments)
         IN  IF seg = <<".", ".">>
             THEN Resolve(Tail(segments),
                          IF resolved_path = <<>> THEN <<>>
                          ELSE SubSeq(resolved_path, 1,
                                      Len(resolved_path) - 1))
             ELSE IF seg = <<".">>
             THEN Resolve(Tail(segments), resolved_path)
             ELSE Resolve(Tail(segments), Append(resolved_path, seg))

\* lines 458-461: the trailing '' after a last segment '.' or '..'
WithTrailing(segments, resolved_path) ==
    IF segments[Len(segments)] \in {<<".">>, <<".", ".">>}
    THEN Append(resolved_path, <<>>) ELSE resolved_path

\* '/'.join(resolved_path) or '/', lines 463-464
JoinOrRoot(resolved_path) ==
    IF Join(resolved_path, <<"/">>) = <<>> THEN <<"/">>
    ELSE Join(resolved_path, <<"/">>)

\* lines 443-464 on the segments of lines 435-441
MergeSegments(segments) ==
    JoinOrRoot(WithTrailing(segments, Resolve(segments, <<>>)))

\* lines 428-464: the merged path
MergePath(bpath, path) == MergeSegments(Segments(bpath, path))

\* lines 463-464: the result of a path merge
JoinMerged(u, netloc, path) ==
    [v |-> urlunparse(<<u[1], netloc, path, u[4], u[5], u[6]>>),
     merged |-> <<path>>]

\* lines 420-464, with the netloc of lines 414-418
JoinPaths(b, u, netloc) ==
    IF u[3] = <<>> /\ u[4] = <<>>
    THEN [v |-> urlunparse(<<u[1], netloc, b[3], b[4],
                             IF u[5] = <<>> THEN b[5] ELSE u[5], u[6]>>),
          merged |-> <<>>]
    ELSE JoinMerged(u, netloc, MergePath(b[3], u[3]))

\* a resolution that forgets the eligibility test of line 412
JoinParsed_any_scheme(b, u, url) ==
    IF u[1] # b[1]
    THEN [v |-> url, merged |-> <<>>]
    ELSE IF u[1] \in uses_netloc /\ u[2] # <<>>
    THEN [v |-> urlunparse(u), merged |-> <<>>]
    ELSE JoinPaths(b, u, IF u[1] \in uses_netloc THEN b[2] ELSE u[2])

\* a resolution that forgets the early return of lines 415-417
JoinParsed_no_return(b, u, url) ==
    IF u[1] # b[1] \/ u[1] \notin uses_relative
    THEN [v |-> url, merged |-> <<>>]
    ELSE JoinPaths(b, u, IF u[1] \in uses_netloc /\ u[2] = <<>>
                         THEN b[2] ELSE u[2])

\* lines 412-464 of urljoin, once base (b) and reference (u) are parsed
JoinParsed(b, u, url) ==
    IF u[1] # b[1] \/ u[1] \notin uses_relative
    THEN [v |-> url, merged |-> <<>>]
    ELSE IF u[1] \in uses_netloc /\ u[2] # <<>>
    THEN [v |-> urlunparse(u), merged |-> <<>>]
    ELSE JoinPaths(b, u, IF u[1] \in uses_netloc THEN b[2] ELSE u[2])

\* a call that returns v without touching the caches
Untouched(c, v) ==
    [cache |-> c.cache, quoters |-> c.quoters, raised |-> FALSE, v |-> v,
     hits |-> <<>>, evicted |-> {}, merged |-> <<>>]

\* lines 412-464 after both urlparse calls (b, then u) returned; j is
\* what JoinParsed makes of their results
JoinResult(b, u, j) ==
    [cache |-> u.cache, quoters |-> u.quoters, raised |-> FALSE,
     v |-> j.v, hits |-> b.hits \o u.hits,
     evicted |-> b.evicted \cup u.evicted, merged |-> j.merged]

\* lines 409-464: u is what urlparse(url, bscheme, allow_fragments) did
JoinWithRef(b, u, url) ==
    IF u.raised
    THEN [u EXCEPT !.hits = b.hits \o u.hits,
                   !.evicted = b.evicted \cup u.evicted]
    ELSE JoinResult(b, u, JoinParsed(b.v, u.v, url))

\* lines 407-464: b is what urlparse(base, '', allow_fragments) did; the
\* default scheme of the second call is bscheme, of base's type when it
\* was cut from base and the '' literal otherwise
JoinWithBase(b, url, allow_fragments, bkind, ukind) ==
    IF b.raised THEN b
    ELSE JoinWithRef(b,
                     urlparse([cache |-> b.cache, quoters |-> b.quoters],
                              url, b.v[1], allow_fragments, ukind,
                              IF b.v[1] = <<>> THEN "str" ELSE bkind),
                     url)

\* urljoin(base, url, allow_fragments) run on the caches c
urljoin(c, base, url, allow_fragments, bkind, ukind) ==
    IF base = <<>> THEN Untouched(c, url)
    ELSE IF url = <<>> THEN Untouched(c, base)
    ELSE JoinWithBase(urlparse(c, base, <<>>, allow_fragments, bkind, "str"),
                      url, allow_fragments, bkind, ukind)

\* lines 476-477 and 481: the result from what urlparse(url) did
Defragged(p) ==
    [p EXCEPT !.v =
        IF p.raised THEN p.v
        ELSE <<urlunparse(<<p.v[1], p.v[2], p.v[3], p.v[4], p.v[5], <<>>>>),
               p.v[6]>>]

\* urldefrag(url), lines 474-481: <<url without fragment, fragment>>
urldefrag(c, url, ukind) ==
    IF In("#", url)
    THEN Defragged(urlparse(c, url, <<>>, TRUE, ukind, "str"))
    ELSE Untouched(c, <<url, <<>>>>)

(***************************************************************************)
(* Percent-decoding codec.  Characters are their code points here.         *)
(***************************************************************************)
PERCENT == 37

\* a table of hex digits without the lower-case letters
_hexdig_upper_only == (48..57) \cup (65..70)

\* _hexdig, line 484: '0123456789ABCDEFabcdef'
_hexdig == (48..57) \cup (65..70) \cup (97..102)

\* int(c, 16) of one hex digit
HexVal(c) ==
    IF c \in 48..57 THEN c - 48
    ELSE IF c \in 65..70 THEN c - 55
    ELSE c - 87

\* item[:2] in _hextobyte, lines 485-486
IsHexPair(p) == Len(p) = 2 /\ p[1] \in _hexdig /\ p[2] \in _hexdig

\* unicode.encode('utf-8') for code points below 0x800
Utf8(s) ==
    IF s = <<>> THEN <<>>
    ELSE LET Enc(c) == IF c < 128 THEN <<c>>
                       ELSE <<192 + (c \div 64), 128 + (c % 64)>>
             F[j \in 0..Len(s)] ==
                 IF j = 0 THEN <<>> ELSE F[j - 1] \o Enc(s[j])
         IN  F[Len(s)]

\* lines 500-506: the loop over the pieces after the first
RECURSIVE UnquoteBits(_)
UnquoteBits(bits) ==
    IF bits = <<>> THEN <<>>
    ELSE LET item == Head(bits)
         IN  (IF IsHexPair(Slice(item, 0, 2))
              THEN <<16 * HexVal(item[1]) + HexVal(item[2])>>
                   \o From(item, 2)
              ELSE <<PERCENT>> \o item)
             \o UnquoteBits(Tail(bits))

\* unquote_to_bytes(string), lines 493-507
unquote_to_bytes(string, kind) ==
    LET str == IF kind = "unicode" THEN Utf8(string) ELSE string
        bits == Split(str, PERCENT)
    IN  IF Len(bits) = 1 THEN str
        ELSE bits[1] \o UnquoteBits(Tail(bits))

(***************************************************************************)
(* Percent-encoding codec.                                                 *)
(***************************************************************************)
\* _ALWAYS_SAFE, lines 625-628: letters, digits and '_.-~'
_ALWAYS_SAFE ==
    (65..90) \cup (97..122) \cup (48..57) \cup {95, 46, 45, 126}

HexUpper == <<48, 49, 50, 51, 52, 53, 54, 55, 56, 57, 65, 66, 67, 68, 69, 70>>

\* an escape that writes the low hex digit first
Escape_low_first(b) ==
    <<PERCENT, HexUpper[(b % 16) + 1], HexUpper[(b \div 16) + 1]>>

\* '%%%02X' % ord(b), line 655
Escape(b) == <<PERCENT, HexUpper[(b \div 16) + 1], HexUpper[(b % 16) + 1]>>

\* c < 128 of line 749 for c a one-character str: Python 2 orders every
\* number before every string, so the comparison is false for each c
StrLessThanInt(c, n) == FALSE

\* str(list) of a list of one-character strs: "['a', 'b']"
ListRepr(l) ==
    LET F[j \in 0..Len(l)] ==
            IF j = 0 THEN <<>>
            ELSE F[j - 1] \o (IF j = 1 THEN <<>> ELSE <<44, 32>>)
                 \o <<39, l[j], 39>>
    IN  <<91>> \o F[Len(l)] \o <<93>>

\* lines 745-749: the safe set as the bytes the tables are keyed by.
\* A unicode safe is encoded with 'ignore'; a str safe goes through
\* bytes([c for c in safe if c < 128]), and bytes is str in Python 2.
NormalizeSafe(safe, kind) ==
    IF kind = "unicode"
    THEN SelectSeq(safe, LAMBDA c : c < 128)
    ELSE ListRepr(SelectSeq(safe, LAMBDA c : StrLessThanInt(c, 128)))

\* not bs.rstrip(_ALWAYS_SAFE_BYTES + safe), line 750
AllSafe(bs, safe) ==
    \A j \in 1..Len(bs) : bs[j] \in _ALWAYS_SAFE \cup Range(safe)

\* Quoter.__init__ and __missing__, lines 642-657: the token of byte b
QuoterMissing(safeset, b) == IF b \in safeset THEN <<b>> ELSE Escape(b)

\* Quoter(safe): the safe set and an empty memo
Quoter(safe) == [safe |-> _ALWAYS_SAFE \cup Range(safe), memo |-> EmptyMap]

\* quoter(char) of line 756: the memo entry, made by __missing__ if absent
QuoterGet(q, b) ==
    IF b \in DOMAIN q.memo THEN q.memo[b] ELSE QuoterMissing(q.safe, b)

\* the Quoter after quoter(char): line 656 stores what __missing__ made
QuoterPut(q, b) ==
    IF b \in DOMAIN q.memo THEN q
    ELSE [q EXCEPT !.memo = (b :> QuoterMissing(q.safe, b)) @@ q.memo]

\* line 756: ''.join([quoter(char) for char in bs]); <<Quoter, text>>
RECURSIVE QuoteChars(_, _, _)
QuoteChars(q, bs, out) ==
    IF bs = <<>> THEN <<q, out>>
    ELSE QuoteChars(QuoterPut(q, Head(bs)), Tail(bs),
                    out \o QuoterGet(q, Head(bs)))

\* lines 752-755: the Quoter kept for safe, or a new one
QuoterFor(c, nsafe) ==
    IF nsafe \in DOMAIN c.quoters THEN c.quoters[nsafe] ELSE Quoter(nsafe)

\* lines 752-756: the caches and the text after the table path ran; r is
\* what QuoteChars made
QuoteResult(c, nsafe, r) ==
    [cache |-> c.cache, quoters |-> (nsafe :> r[1]) @@ c.quoters,
     raised |-> FALSE, v |-> r[2],
     hits |-> <<>>, evicted |-> {}, merged |-> <<>>]

\* lines 750-756, with the safe bytes of lines 745-749
QuoteNormalized(c, bs, nsafe) ==
    IF AllSafe(bs, nsafe) THEN Untouched(c, bs)
    ELSE QuoteResult(c, nsafe, QuoteChars(QuoterFor(c, nsafe), bs, <<>>))

\* the type of what quote_from_bytes returns: '' (line 744) and the join
\* of line 756 are str, bs.decode() of line 751 is unicode
QuotedKind(bs, nsafe) ==
    IF bs # <<>> /\ AllSafe(bs, nsafe) THEN "unicode" ELSE "str"

\* quote_from_bytes(bs, safe) for a bytes bs, run on the caches c
quote_from_bytes(c, bs, safe, skind) ==
    IF bs = <<>> THEN Untouched(c, <<>>)
    ELSE QuoteNormalized(c, bs, NormalizeSafe(safe, skind))

\* a call on the caches c that raised what
Raising(c, what) ==
    [cache |-> c.cache, quoters |-> c.quoters, raised |-> TRUE,
     v |-> <<what>>, hits |-> <<>>, evicted |-> {}, merged |-> <<>>]

\* quote(string, safe, encoding), lines 660-712, with errors left at None:
\* a unicode string is encoded as UTF-8, a str takes no encoding
quote(c, string, kind, safe, skind, encoding) ==
    IF kind = "unicode"
    THEN IF string = <<>> THEN Untouched(c, string)
         ELSE quote_from_bytes(c, Utf8(string), safe, skind)
    ELSE IF encoding # "None" THEN Raising(c, "TypeError")
    ELSE quote_from_bytes(c, string, safe, skind)

\* string.replace(' ', '+'), line 733, on what quote returned
SpacesToPlus(r) ==
    IF r.raised THEN r
    ELSE [r EXCEPT !.v = [j \in 1..Len(r.v) |->
                             IF r.v[j] = 32 THEN 43 ELSE r.v[j]]]

\* quote_plus(string, safe, encoding), lines 715-733
quote_plus(c, string, kind, safe, skind, encoding) ==
    IF \A j \in 1..Len(string) : string[j] # 32
    THEN quote(c, string, kind, safe, skind, encoding)
    ELSE SpacesToPlus(quote(c, string, kind, safe \o <<32>>, skind,
                            encoding))

(***************************************************************************)
(* The library as a state machine: one action per API call.                *)
(***************************************************************************)
\* the two process-wide caches
caches == [cache |-> _parse_cache, quoters |-> _safe_quoters]

NoRet == [raised |-> FALSE, v |-> <<>>]

\* the effect of one call: r is what the call did and returned
Commit(op, args, r) ==
    /\ _parse_cache' = r.cache
    /\ _safe_quoters' = r.quoters
    /\ call' = [op |-> op, args |-> args]
    /\ ret' = [raised |-> r.raised, v |-> r.v]
    /\ hits' = r.hits
    /\ evicted' = r.evicted
    /\ merged' = r.merged

\* the n-th URI of the client's walk
Walk(n) == <<"/", "w", Digits[(n \div 10) + 1], Digits[(n % 10) + 1]>>

UriA == <<"x", ":", "a", "#", "b">>
UriBad == <<"h", "t", "t", "p", ":", "/", "/", "[", "a">>
UriBase == <<"h", "t", "t", "p", ":", "/", "/", "h", "/", "b", ";", "p">>
UriRef == <<".", ".", "/", ".", ".", "/", "c">>

\* arguments of the calls the client makes besides its walk
SplitArgs == { <<UriA, <<>>, FALSE, "str", "str">>,
               <<UriBad, <<>>, TRUE, "str", "str">> }
ParseArgs == { <<UriBase, <<>>, TRUE, "str", "str">> }
JoinArgs == { <<UriBase, UriRef, TRUE, "str", "str">> }
DefragArgs == { <<UriA, "unicode">> }
QuoteArgs == { <<<<47, 32>>, <<47>>, "str">>, <<<<47, 32>>, <<47>>, "unicode">> }

\* decompose: urlsplit(url, scheme, allow_fragments)
Decompose(a) ==
    /\ Commit("urlsplit", a, urlsplit(caches, a[1], a[2], a[3], a[4], a[5]))
    /\ UNCHANGED cursor

\* decompose of the next URI of the walk
DecomposeWalk ==
    /\ cursor < MaxWalk
    /\ Commit("urlsplit", <<Walk(cursor + 1), <<>>, TRUE, "str", "str">>,
              urlsplit(caches, Walk(cursor + 1), <<>>, TRUE, "str", "str"))
    /\ cursor' = cursor + 1

\* decompose of a key that the call before has just discarded
DecomposeEvicted ==
    /\ \E k \in evicted :
          Commit("urlsplit", k, urlsplit(caches, k[1], k[2], k[3], k[4], k[5]))
    /\ UNCHANGED cursor

\* parse: urlparse(url, scheme, allow_fragments)
Parse(a) ==
    /\ Commit("urlparse", a, urlparse(caches, a[1], a[2], a[3], a[4], a[5]))
    /\ UNCHANGED cursor

\* resolve: urljoin(base, url, allow_fragments)
ResolveCall(a) ==
    /\ Commit("urljoin", a, urljoin(caches, a[1], a[2], a[3], a[4], a[5]))
    /\ UNCHANGED cursor

\* stripFragment: urldefrag(url)
StripFragment(a) ==
    /\ Commit("urldefrag", a, urldefrag(caches, a[1], a[2]))
    /\ UNCHANGED cursor

\* percentEncode: quote_from_bytes(bs, safe)
PercentEncode(a) ==
    /\ Commit("quote_from_bytes", a,
              quote_from_bytes(caches, a[1], a[2], a[3]))
    /\ UNCHANGED cursor

\* resetCaches: clear_cache()
Cleared(c) ==
    [cache |-> c.cache, quoters |-> c.quoters, raised |-> FALSE, v |-> <<>>,
     hits |-> <<>>, evicted |-> {}, merged |-> <<>>]

ResetCaches ==
    /\ Commit("clear_cache", <<>>, Cleared(clear_cache(caches)))
    /\ UNCHANGED cursor

Init ==
    /\ _parse_cache = EmptyMap
    /\ _safe_quoters = EmptyMap
    /\ call = [op |-> "none", args |-> <<>>]
    /\ ret = NoRet
    /\ hits = <<>>
    /\ evicted = {}
    /\ merged = <<>>
    /\ cursor = 0

Next ==
    \/ \E a \in SplitArgs : Decompose(a)
    \/ DecomposeWalk
    \/ DecomposeEvicted
    \/ \E a \in ParseArgs : Parse(a)
    \/ \E a \in JoinArgs : ResolveCall(a)
    \/ \E a \in DefragArgs : StripFragment(a)
    \/ \E a \in QuoteArgs : PercentEncode(a)
    \/ ResetCaches

Spec == Init /\ [][Next]_vars

(***************************************************************************)
(* Decomposition of one URI drawn from a bounded set, called until the     *)
(* cache serves it.                                                        *)
(***************************************************************************)
RECURSIVE Strings(_, _)
\* all sequences over alphabet of length at most n
Strings(alphabet, n) ==
    IF n = 0 THEN {<<>>}
    ELSE LET shorter == Strings(alphabet, n - 1)
         IN  shorter \cup {Append(s, c) : s \in shorter, c \in alphabet}

SplitPrefixes ==
    { <<>>, <<"h", "t", "t", "p", ":">>, <<"H", "t", "t", "p", ":">>,
      <<"x", ":">>, <<"a", " ", ":">> }
SplitLeads == { <<>>, <<"/", "/">> }
TailChars == {"/", "[", "]", "?", "#", ":"}
SplitInputs ==
    { p \o l \o t : p \in SplitPrefixes, l \in SplitLeads,
                    t \in Strings(TailChars, MaxTail) }
DefaultSchemes == { <<>>, <<"W", "s">> }

InitSplit ==
    /\ _parse_cache = EmptyMap
    /\ _safe_quoters = EmptyMap
    /\ \E url \in SplitInputs, scheme \in DefaultSchemes, af \in BOOLEAN :
          call = [op |-> "input", args |-> <<url, scheme, af, "str", "str">>]
    /\ ret = NoRet
    /\ hits = <<>>
    /\ evicted = {}
    /\ merged = <<>>
    /\ cursor = 0

\* urlsplit of the drawn URI: first a miss, then, if it was stored, a hit
DecomposeInput ==
    /\ call.op \in {"input", "urlsplit"}
    /\ hits # <<TRUE>>
    /\ Commit("urlsplit", call.args,
              urlsplit(caches, call.args[1], call.args[2], call.args[3],
                       call.args[4], call.args[5]))
    /\ UNCHANGED cursor

NextSplit == DecomposeInput

SpecSplit == InitSplit /\ [][NextSplit]_vars

(***************************************************************************)
(* Properties of the cache.                                                *)
(***************************************************************************)
\* C1: after any sequence of decompose, parse, resolve, stripFragment,
\* percentEncode and resetCaches calls the decomposition cache holds at
\* most MAX_CACHE_SIZE (20) entries.
CacheBounded == Cardinality(DOMAIN _parse_cache) <= MAX_CACHE_SIZE

\* the cache is full: the next miss overflows it
CacheAtCapacity ==
    /\ call.op # "none"
    /\ Cardinality(DOMAIN _parse_cache) = MAX_CACHE_SIZE

\* C2: a successful decompose that misses while the cache holds 20 entries
\* discards the whole cache and every quoter table and leaves exactly the
\* new entry; a decompose made directly afterwards for one of the 20
\* discarded keys is a miss whose result is computed afresh and stored.
OverflowClearsAll ==
    [][ /\ ( /\ Cardinality(DOMAIN _parse_cache) = MAX_CACHE_SIZE
             /\ call'.op = "urlsplit"
             /\ hits' = <<FALSE>>
             /\ ~ret'.raised )
           => /\ DOMAIN _parse_cache' = {call'.args}
              /\ _parse_cache'[call'.args] = ret'.v
              /\ _safe_quoters' = EmptyMap
              /\ evicted' = DOMAIN _parse_cache
        /\ ( /\ call.op = "urlsplit"
             /\ ~ret.raised
             /\ Cardinality(evicted) = MAX_CACHE_SIZE
             /\ call'.op = "urlsplit"
             /\ call'.args \in evicted )
           => /\ hits' = <<FALSE>>
              /\ ret' = SplitBody(call'.args[1], call'.args[2],
                                  call'.args[3])
              /\ DOMAIN _parse_cache' = {call.args, call'.args}
      ]_vars

\* an overflow has just happened: 20 keys were discarded by a decompose
OverflowHappened ==
    /\ call.op = "urlsplit"
    /\ ~ret.raised
    /\ Cardinality(evicted) = MAX_CACHE_SIZE
    /\ Cardinality(DOMAIN _parse_cache) = 1

(***************************************************************************)
(* Properties of decomposition.                                            *)
(***************************************************************************)
\* the text left after scheme removal, told from the text alone
AfterScheme(url) ==
    IF \E j \in 2..Len(url) :
          /\ url[j] = ":"
          /\ \A k \in 1..(j - 1) : url[k] \in scheme_chars
    THEN LET j == CHOOSE j \in 2..Len(url) :
                     /\ url[j] = ":"
                     /\ \A k \in 1..(j - 1) : url[k] # ":"
         IN  SubSeq(url, j + 1, Len(url))
    ELSE url

\* the authority of a text beginning with //: the longest run after the
\* two slashes that is free of '/', '?' and '#'
AuthorityOf(rest) ==
    LET body == SubSeq(rest, 3, Len(rest))
        n == SetMax({k \in 0..Len(body) :
                        \A j \in 1..k : body[j] \notin {"/", "?", "#"}})
    IN  SubSeq(body, 1, n)

Unbalanced(a) == In("[", a) # In("]", a)

\* C3: decompose fails with InvalidAuthority exactly when the text left
\* after scheme removal begins with '//' and the authority extracted from
\* it has '[' without ']' or ']' without '['; otherwise it returns a
\* result, and no returned or cached authority has unbalanced brackets.
InvalidAuthorityExactly ==
    /\ call.op = "urlsplit" =>
         LET rest == AfterScheme(call.args[1])
         IN  /\ ret.raised <=>
                  /\ Len(rest) >= 2
                  /\ rest[1] = "/" /\ rest[2] = "/"
                  /\ Unbalanced(AuthorityOf(rest))
             /\ ~ret.raised => Len(ret.v) = 5 /\ ~Unbalanced(ret.v[2])
    /\ \A k \in DOMAIN _parse_cache : ~Unbalanced(_parse_cache[k][2])

\* decompose has failed on an 'http' URI whose authority opens a bracket
InvalidAuthorityRaised ==
    /\ call.op = "urlsplit"
    /\ ret.raised
    /\ Slice(call.args[1], 0, 5) = <<"h", "t", "t", "p", ":">>

(***************************************************************************)
(* Round trip: a text drawn from a bounded set is decomposed, the five     *)
(* components are composed, and the composed text is decomposed again.     *)
(***************************************************************************)
RoundTripPrefixes ==
    { <<>>, <<"h", "t", "t", "p", ":">>, <<"x", ":">> }
RoundTripTexts ==
    { p \o t : p \in RoundTripPrefixes,
               t \in Strings({"/", "a", "?", "#", "["}, MaxText) }

InitRoundTrip ==
    /\ _parse_cache = EmptyMap
    /\ _safe_quoters = EmptyMap
    /\ \E url \in RoundTripTexts : call = [op |-> "text", args |-> <<url>>]
    /\ ret = NoRet
    /\ hits = <<>>
    /\ evicted = {}
    /\ merged = <<>>
    /\ cursor = 0

\* decompose: urlsplit(url)
DecomposeText ==
    /\ call.op = "text"
    /\ Commit("urlsplit", call.args,
              urlsplit(caches, call.args[1], <<>>, TRUE, "str", "str"))
    /\ UNCHANGED cursor

\* compose of the five components decompose returned: urlunsplit(parts)
Compose ==
    /\ call.op = "urlsplit"
    /\ ~ret.raised
    /\ Commit("urlunsplit", <<call.args[1], ret.v>>,
              Untouched(caches, urlunsplit(ret.v)))
    /\ UNCHANGED cursor

\* decompose of the composed text: urlsplit(urlunsplit(parts))
DecomposeComposed ==
    /\ call.op = "urlunsplit"
    /\ Commit("urlsplit of composed", Append(call.args, ret.v),
              urlsplit(caches, ret.v, <<>>, TRUE, "str", "str"))
    /\ UNCHANGED cursor

NextRoundTrip == DecomposeText \/ Compose \/ DecomposeComposed

SpecRoundTrip == InitRoundTrip /\ [][NextRoundTrip]_vars

\* C4, for the five components decompose returns: when the scheme is not
\* authority-using or the authority is syntactically valid (balanced
\* brackets, none of '/', '?', '#'), decompose(compose(parts)) returns
\* the same five components.
RoundTripOfParts ==
    ( /\ call.op = "urlsplit of composed"
      /\ \/ call.args[2][1] \notin uses_netloc
         \/ /\ ~Unbalanced(call.args[2][2])
            /\ \A c \in {"/", "?", "#"} : ~In(c, call.args[2][2]) )
    => (~ret.raised /\ ret.v = call.args[2])

\* 'http:a' was decomposed into a relative path 'a', composed into
\* 'http:///a' and decomposed into the absolute path '/a'
RelativePathMadeAbsolute ==
    /\ call.op = "urlsplit of composed"
    /\ call.args[1] = <<"h", "t", "t", "p", ":", "a">>
    /\ call.args[2] = << <<"h", "t", "t", "p">>, <<>>, <<"a">>, <<>>, <<>> >>
    /\ call.args[3] = <<"h", "t", "t", "p", ":", "/", "/", "/", "a">>
    /\ ret.v = << <<"h", "t", "t", "p">>, <<>>, <<"/", "a">>, <<>>, <<>> >>

(***************************************************************************)
(* Resolution of a reference against a base, both drawn from bounded sets, *)
(* and of the result against the same base.                                *)
(***************************************************************************)
SegValues == { <<>>, <<".">>, <<".", ".">>, <<"a">> }

RECURSIVE SegLists(_)
\* the lists of 1..n segments
SegLists(n) ==
    IF n <= 1 THEN {<<g>> : g \in SegValues}
    ELSE SegLists(n - 1)
         \cup {Append(l, g) : l \in SegLists(n - 1), g \in SegValues}

\* the paths of at most n segments
PathsOf(n) == {Join(l, <<"/">>) : l \in SegLists(n)}

BasePrefixes ==
    { <<>>, <<"/">>, <<"h", "t", "t", "p", ":">>,
      <<"h", "t", "t", "p", ":", "/">>,
      <<"h", "t", "t", "p", ":", "/", "/", "h", "/">>, <<"x", ":", "/">> }
RefPrefixes ==
    { <<>>, <<"/">>, <<"h", "t", "t", "p", ":">>, <<"x", ":">>,
      <<"h", "t", "t", "p", ":", "/", "/", "g">>, <<"x", ":", "/", "/", "[">> }
RefSuffixes == { <<>>, <<";", "p">>, <<"#", "f">> }
Bases == { p \o t : p \in BasePrefixes, t \in PathsOf(MaxBaseSegs) }
Refs ==
    { p \o t \o x : p \in RefPrefixes, t \in PathsOf(MaxRefSegs),
                    x \in RefSuffixes }

InitJoin ==
    /\ _parse_cache = EmptyMap
    /\ _safe_quoters = EmptyMap
    /\ \E base \in Bases, url \in Refs, af \in BOOLEAN :
          call = [op |-> "pair", args |-> <<base, url, af>>]
    /\ ret = NoRet
    /\ hits = <<>>
    /\ evicted = {}
    /\ merged = <<>>
    /\ cursor = 0

\* resolve: urljoin(base, url, allow_fragments)
ResolveDrawn ==
    /\ call.op = "pair"
    /\ Commit("urljoin", call.args,
              urljoin(caches, call.args[1], call.args[2], call.args[3],
                      "str", "str"))
    /\ UNCHANGED cursor

\* resolve of what resolve returned: urljoin(base, urljoin(base, url))
ResolveAgain ==
    /\ call.op = "urljoin"
    /\ ~ret.raised
    /\ Commit("urljoin again", Append(call.args, ret.v),
              urljoin(caches, call.args[1], ret.v, call.args[3],
                      "str", "str"))
    /\ UNCHANGED cursor

NextJoin == ResolveDrawn \/ ResolveAgain

SpecJoin == InitJoin /\ [][NextJoin]_vars

\* C5: whenever resolve performs a path merge it does not fail, whatever
\* the number of '..' segments, and no segment of the merged path is '.'
\* or '..': a '..' with nothing left to pop is dropped.
MergeClampsDots ==
    (call.op = "urljoin" /\ merged # <<>>) =>
        /\ ~ret.raised
        /\ Len(merged) = 1
        /\ merged[1] # <<>>
        /\ \A j \in 1..Len(Split(merged[1], "/")) :
              Split(merged[1], "/")[j] \notin {<<".">>, <<".", ".">>}

\* a reference of two '..' was merged with a base that has one directory
MergedAboveRoot ==
    /\ call.op = "urljoin"
    /\ call.args[1] = <<"h", "t", "t", "p", ":", "/", "/", "h", "/", "a">>
    /\ call.args[2] = <<".", ".", "/", ".", ".">>
    /\ merged = << <<"/">> >>
    /\ ret.v = <<"h", "t", "t", "p", ":", "/", "/", "h", "/">>

\* the scheme a text carries, or dflt: told from the text alone
SchemeOf(url, dflt) ==
    IF AfterScheme(url) = url THEN dflt
    ELSE Lower(SubSeq(url, 1, Len(url) - Len(AfterScheme(url)) - 1))

\* the text carries an authority that is not empty
HasAuthority(url) ==
    /\ Slice(AfterScheme(url), 0, 2) = <<"/", "/">>
    /\ AuthorityOf(AfterScheme(url)) # <<>>

\* decompose raises on the text
InvalidAuthority(url) ==
    /\ Slice(AfterScheme(url), 0, 2) = <<"/", "/">>
    /\ Unbalanced(AuthorityOf(AfterScheme(url)))

\* resolve returned the same text both times
SameAgain == ~ret.raised /\ ret.v = call.args[4]

\* C6 as stated: for every base and every reference that carries its own
\* scheme, resolve(base, resolve(base, ref)) = resolve(base, ref).
ResolveIdempotent ==
    (call.op = "urljoin again" /\ AfterScheme(call.args[2]) # call.args[2])
        => SameAgain

\* C6: for every base and every reference that carries its own scheme,
\* resolve(base, resolve(base, ref)) = resolve(base, ref), provided the
\* base or the reference carries a non-empty authority, or their schemes
\* differ, or the scheme is not relative-resolution-eligible.
ResolveIdempotentWithAuthority ==
    ( /\ call.op = "urljoin again"
      /\ AfterScheme(call.args[2]) # call.args[2]
      /\ \/ HasAuthority(call.args[1])
         \/ HasAuthority(call.args[2])
         \/ SchemeOf(call.args[2], <<>>) # SchemeOf(call.args[1], <<>>)
         \/ SchemeOf(call.args[2], <<>>) \notin uses_relative )
    => SameAgain

\* a reference with the base's scheme and no authority was resolved twice
\* against a base with an authority, through a path merge
ResolvedTwice ==
    /\ call.op = "urljoin again"
    /\ call.args[1] = <<"h", "t", "t", "p", ":", "/", "/", "h", "/", "a">>
    /\ call.args[2] = <<"h", "t", "t", "p", ":", ".", ".", "/", "a">>
    /\ ret.v = <<"h", "t", "t", "p", ":", "/", "/", "h", "/", "a">>

CodecBytes == {37, 47, 52, 71, 91, 97, 200}

\* the safe arguments: '/' and '' as str; u'/', u'%' and u'/\xc8'
SafeArgs ==
    { << <<47>>, "str" >>, << <<>>, "str" >>,
      << <<47>>, "unicode" >>, << <<37>>, "unicode" >>,
      << <<47, 200>>, "unicode" >> }

InitQuote ==
    /\ _parse_cache = EmptyMap
    /\ _safe_quoters = EmptyMap
    /\ \E bs \in Strings(CodecBytes, MaxBytes) :
          call = [op |-> "bytes", args |-> <<bs>>]
    /\ ret = NoRet
    /\ hits = <<>>
    /\ evicted = {}
    /\ merged = <<>>
    /\ cursor = 0

\* percentEncode: quote_from_bytes(bs, safe)
EncodeDrawn ==
    /\ call.op = "bytes"
    /\ \E a \in SafeArgs :
          Commit("quote_from_bytes", <<call.args[1], a[1], a[2]>>,
                 quote_from_bytes(caches, call.args[1], a[1], a[2]))
    /\ UNCHANGED cursor

\* byte-level percentDecode of what percentEncode returned
DecodeEncoded ==
    /\ call.op = "quote_from_bytes"
    /\ ~ret.raised
    /\ Commit("unquote_to_bytes of quoted", Append(call.args, ret.v),
              Untouched(caches,
                  unquote_to_bytes(ret.v,
                      QuotedKind(call.args[1],
                          NormalizeSafe(call.args[2], call.args[3])))))
    /\ UNCHANGED cursor

\* byte-level percentDecode of the drawn text, as str or as unicode
DecodeDrawn ==
    /\ call.op = "bytes"
    /\ \E kind \in {"str", "unicode"} :
          Commit("unquote_to_bytes", <<call.args[1], kind>>,
                 Untouched(caches, unquote_to_bytes(call.args[1], kind)))
    /\ UNCHANGED cursor

NextQuote == EncodeDrawn \/ DecodeEncoded \/ DecodeDrawn

SpecQuote == InitQuote /\ [][NextQuote]_vars

\* decoding gave back the bytes that were encoded
DecodedBack == ~ret.raised /\ ret.v = call.args[1]

\* C7 as stated: for all byte sequences b and all declared safe sets S,
\* percentDecode(percentEncode(b, S)) = b.
PercentRoundTrip ==
    (call.op = "unquote_to_bytes of quoted") => DecodedBack

\* C7: for all byte sequences b and all declared safe sets S that do not
\* contain '%', the byte-level percentDecode(percentEncode(b, S)) = b.
PercentRoundTripPercentUnsafe ==
    ( /\ call.op = "unquote_to_bytes of quoted"
      /\ \A j \in 1..Len(call.args[2]) : call.args[2][j] # 37 )
    => DecodedBack

\* '%4' followed by a non-ASCII byte was encoded under safe '/' to
\* '%254%C8' and decoded back
PercentRoundTripDone ==
    /\ call.op = "unquote_to_bytes of quoted"
    /\ call.args[1] = <<37, 52, 200>>
    /\ call.args[2] = <<47>>
    /\ call.args[4] = <<37, 50, 53, 52, 37, 67, 56>>
    /\ ret.v = call.args[1]

\* the sixteen hex digits, upper case and lower case
UpperHexDigits == <<48, 49, 50, 51, 52, 53, 54, 55, 56, 57,
                    65, 66, 67, 68, 69, 70>>
LowerHexDigits == <<48, 49, 50, 51, 52, 53, 54, 55, 56, 57,
                    97, 98, 99, 100, 101, 102>>

\* what the claim has percentEncode emit for byte b under declared safe
ClaimedToken(b, safe) ==
    IF \/ b \in (65..90) \cup (97..122) \cup (48..57) \cup {95, 46, 45, 126}
       \/ b < 128 /\ \E j \in 1..Len(safe) : safe[j] = b
    THEN <<b>>
    ELSE <<37, UpperHexDigits[(b \div 16) + 1], UpperHexDigits[(b % 16) + 1]>>

RECURSIVE ClaimedQuote(_, _)
ClaimedQuote(bs, safe) ==
    IF bs = <<>> THEN <<>>
    ELSE ClaimedToken(Head(bs), safe) \o ClaimedQuote(Tail(bs), safe)

\* C8 as stated: for every byte sequence and every declared safe set,
\* percentEncode emits each byte unchanged when it is always-safe or an
\* ASCII byte of the declared safe set, and '%' with its two upper-case
\* hex digits otherwise, on the fast path and on the table path.
QuoteEmitsPerByte ==
    (call.op = "quote_from_bytes") =>
        /\ ~ret.raised
        /\ ret.v = ClaimedQuote(call.args[1], call.args[2])

\* C8 for a safe set declared as unicode text: there percentEncode emits
\* what the claim says.
QuoteEmitsPerByteUnicodeSafe ==
    (call.op = "quote_from_bytes" /\ call.args[3] = "unicode") =>
        /\ ~ret.raised
        /\ ret.v = ClaimedQuote(call.args[1], call.args[2])

\* 'a/' was encoded under the default safe '/' and the '/' was escaped
DefaultSafeEscaped ==
    /\ call.op = "quote_from_bytes"
    /\ call.args = << <<97, 47>>, <<47>>, "str" >>
    /\ ret.v = <<97, 37, 50, 70>>

\* the value of the hex digit c, or -1
ClaimedHexValue(c) ==
    IF \E v \in 1..16 : UpperHexDigits[v] = c \/ LowerHexDigits[v] = c
    THEN (CHOOSE v \in 1..16 :
              UpperHexDigits[v] = c \/ LowerHexDigits[v] = c) - 1
    ELSE -1

RECURSIVE ClaimedDecode(_)
\* a left-to-right pass: '%' and two hex digits become one byte, every
\* other byte (a '%' without two hex digits included) is copied
ClaimedDecode(s) ==
    IF s = <<>> THEN <<>>
    ELSE IF /\ s[1] = 37 /\ Len(s) >= 3
            /\ ClaimedHexValue(s[2]) >= 0 /\ ClaimedHexValue(s[3]) >= 0
    THEN <<16 * ClaimedHexValue(s[2]) + ClaimedHexValue(s[3])>>
         \o ClaimedDecode(SubSeq(s, 4, Len(s)))
    ELSE <<s[1]>> \o ClaimedDecode(Tail(s))

\* C9: the byte-level percent-decode never fails: in the raw bytes of its
\* input each '%' followed by two hex digits of either case is replaced
\* by the byte they denote, each other '%' is emitted literally with the
\* text after it unchanged, and every other byte is copied.
DecodeNeverFails ==
    (call.op = "unquote_to_bytes") =>
        /\ ~ret.raised
        /\ ret.v = ClaimedDecode(IF call.args[2] = "unicode"
                                 THEN Utf8(call.args[1]) ELSE call.args[1])

\* '%4a' was decoded to 'J'
DecodedLowerCase ==
    /\ call.op = "unquote_to_bytes"
    /\ call.args[1] = <<37, 52, 97>>
    /\ ret.v = <<74>>

(***************************************************************************)
(* Scheme recognition.                                                     *)
(***************************************************************************)
\* the position (from 1) of the first c in s, or 0
FirstAt(s, c) ==
    IF \E j \in 1..Len(s) : s[j] = c
    THEN SetMin({j \in 1..Len(s) : s[j] = c})
    ELSE 0

\* letters, digits, '+', '-', '.'
IsSchemeChar(c) ==
    \/ \E j \in 1..26 : c = LowerLetters[j] \/ c = UpperLetters[j]
    \/ \E j \in 1..10 : c = Digits[j]
    \/ c \in {"+", "-", "."}

\* the first ':' of the text is after a non-empty run of scheme characters
CarriesScheme(url) ==
    /\ FirstAt(url, ":") > 1
    /\ \A k \in 1..(FirstAt(url, ":") - 1) : IsSchemeChar(url[k])

\* authority, path, query and fragment of a text without its scheme, told
\* from the positions of '//', '#' and '?'
ComponentsOf(rest, af) ==
    LET auth == IF Slice(rest, 0, 2) = <<"/", "/">>
                THEN AuthorityOf(rest) ELSE <<>>
        tail == IF Slice(rest, 0, 2) = <<"/", "/">>
                THEN SubSeq(rest, Len(auth) + 3, Len(rest)) ELSE rest
        h == IF af THEN FirstAt(tail, "#") ELSE 0
        front == IF h > 0 THEN SubSeq(tail, 1, h - 1) ELSE tail
        q == FirstAt(front, "?")
    IN  << auth,
           IF q > 0 THEN SubSeq(front, 1, q - 1) ELSE front,
           IF q > 0 THEN SubSeq(front, q + 1, Len(front)) ELSE <<>>,
           IF h > 0 THEN SubSeq(tail, h + 1, Len(tail)) ELSE <<>> >>

\* C11: when the first ':' is at a position > 0 and the prefix before it
\* consists only of scheme characters, decompose returns that prefix
\* lowercased as the scheme and the components of the text after the ':';
\* otherwise it returns the default scheme as given and the components of
\* the whole text. The 'http' fast path is no exception.
SchemeRecognized ==
    (call.op = "urlsplit" /\ ~ret.raised) =>
        LET url == call.args[1]
            i == FirstAt(url, ":")
        IN  IF CarriesScheme(url)
            THEN ret.v = <<Lower(SubSeq(url, 1, i - 1))>>
                         \o ComponentsOf(SubSeq(url, i + 1, Len(url)),
                                         call.args[3])
            ELSE ret.v = <<call.args[2]>> \o ComponentsOf(url, call.args[3])

\* 'Http:' was recognised by the scheme-character loop and lowercased,
\* with an authority, a query and a fragment after it
SchemeLowercased ==
    /\ call.op = "urlsplit"
    /\ ~ret.raised
    /\ Slice(call.args[1], 0, 7) = <<"H", "t", "t", "p", ":", "/", "/">>
    /\ ret.v[1] = <<"h", "t", "t", "p">>
    /\ ret.v[4] # <<>> /\ ret.v[5] # <<>>

(***************************************************************************)
(* Parse: a text drawn from a bounded set is decomposed and then parsed.   *)
(***************************************************************************)
ParsePrefixes ==
    { <<>>, <<"h", "t", "t", "p", ":">>, <<"x", ":">>,
      <<"h", "t", "t", "p", ":", "/", "/", "h">> }
ParseTexts ==
    { p \o t : p \in ParsePrefixes,
               t \in Strings({"/", ";", "a", "?"}, MaxParamText) }

InitParse ==
    /\ _parse_cache = EmptyMap
    /\ _safe_quoters = EmptyMap
    /\ \E url \in ParseTexts : call = [op |-> "text", args |-> <<url>>]
    /\ ret = NoRet
    /\ hits = <<>>
    /\ evicted = {}
    /\ merged = <<>>
    /\ cursor = 0

\* decompose: urlsplit(url)
DecomposeDrawn ==
    /\ call.op = "text"
    /\ Commit("urlsplit", call.args,
              urlsplit(caches, call.args[1], <<>>, TRUE, "str", "str"))
    /\ UNCHANGED cursor

\* parse of the same text: urlparse(url)
ParseDecomposed ==
    /\ call.op = "urlsplit"
    /\ ~ret.raised
    /\ Commit("urlparse", <<call.args[1], ret.v>>,
              urlparse(caches, call.args[1], <<>>, TRUE, "str", "str"))
    /\ UNCHANGED cursor

NextParse == DecomposeDrawn \/ ParseDecomposed

SpecParse == InitParse /\ [][NextParse]_vars

\* the position (from 1) of the last c in s, or 0
LastAt(s, c) == SetMax({j \in 1..Len(s) : s[j] = c} \cup {0})

\* where the claim has parse split the path: at the first ';' when the
\* path has no '/', at the first ';' after the last '/' otherwise; 0 when
\* there is no such ';'
ParamsAt(path) ==
    SetMin({j \in 1..Len(path) : path[j] = ";" /\ j > LastAt(path, "/")}
           \cup {Len(path) + 1}) % (Len(path) + 1)

\* C12: parse yields non-empty params only when the scheme is
\* parameter-using and the path contains ';'. A path with no '/' is split
\* at its first ';', a path with '/' only at the first ';' after its last
\* '/', and is returned whole with empty params when its final segment
\* has no ';'. Path + ';' + params, or the path alone when no split
\* happened, is the path decompose returned; the other components are
\* those of decompose.
ParamsSplitAtLastSegment ==
    (call.op = "urlparse") =>
        LET s == call.args[2]
            k == ParamsAt(s[3])
        IN  /\ ~ret.raised
            /\ <<ret.v[1], ret.v[2], ret.v[5], ret.v[6]>>
                  = <<s[1], s[2], s[4], s[5]>>
            /\ ret.v[4] # <<>> => (s[1] \in uses_params /\ In(";", s[3]))
            /\ IF s[1] \in uses_params /\ k > 0
               THEN /\ ret.v[3] = SubSeq(s[3], 1, k - 1)
                    /\ ret.v[4] = SubSeq(s[3], k + 1, Len(s[3]))
                    /\ ret.v[3] \o <<";">> \o ret.v[4] = s[3]
               ELSE ret.v[3] = s[3] /\ ret.v[4] = <<>>

\* a path with a ';' before its last '/' and one after it was split at
\* the second
ParamsOfLastSegment ==
    /\ call.op = "urlparse"
    /\ In("/", ret.v[3])
    /\ In(";", ret.v[3])
    /\ ret.v[4] # <<>>

(***************************************************************************)
(* The plus variant of percentEncode on texts of spaces, '+' and 'a'.      *)
(***************************************************************************)
PlusBytes == {32, 43, 97}

\* the safe arguments: '' and '+' as str; u'', u'+' and u'/'
PlusSafeArgs ==
    { << <<>>, "str" >>, << <<43>>, "str" >>,
      << <<>>, "unicode" >>, << <<43>>, "unicode" >>,
      << <<47>>, "unicode" >> }

InitPlus ==
    /\ _parse_cache = EmptyMap
    /\ _safe_quoters = EmptyMap
    /\ \E string \in Strings(PlusBytes, MaxPlus),
          kind \in {"str", "unicode"}, encoding \in {"None", "utf-8"} :
          call = [op |-> "string", args |-> <<string, kind, encoding>>]
    /\ ret = NoRet
    /\ hits = <<>>
    /\ evicted = {}
    /\ merged = <<>>
    /\ cursor = 0

\* the plus variant of percentEncode: quote_plus(string, safe, encoding)
EncodePlus ==
    /\ call.op = "string"
    /\ \E a \in PlusSafeArgs :
          Commit("quote_plus",
                 <<call.args[1], call.args[2], call.args[3], a[1], a[2]>>,
                 quote_plus(caches, call.args[1], call.args[2], a[1], a[2],
                            call.args[3]))
    /\ UNCHANGED cursor

NextPlus == EncodePlus

SpecPlus == InitPlus /\ [][NextPlus]_vars

\* what the claim has the plus variant emit for byte b of the input: '+'
\* for a space, '%2B' for a '+' that is not declared safe
ClaimedPlusToken(b, safe) ==
    IF b = 32 THEN <<43>>
    ELSE IF b = 43 /\ ~\E j \in 1..Len(safe) : safe[j] = 43
    THEN <<37, 50, 66>>
    ELSE <<b>>

RECURSIVE ClaimedPlus(_, _)
ClaimedPlus(string, safe) ==
    IF string = <<>> THEN <<>>
    ELSE ClaimedPlusToken(Head(string), safe)
         \o ClaimedPlus(Tail(string), safe)

\* C13 as stated: for every input and every declared safe set, the plus
\* variant of percentEncode renders each space of the input as '+', never
\* as '%20' or as a space, and each '+' as '%2B' unless '+' is in the
\* declared safe set (the inputs here are made of spaces, '+' and the
\* always-safe 'a').
PlusRendersSpaces ==
    (call.op = "quote_plus" /\ ~ret.raised) =>
        ret.v = ClaimedPlus(call.args[1], call.args[4])

\* C13 for a safe set declared as unicode text: there the plus variant
\* emits what the claim says.
PlusRendersSpacesUnicodeSafe ==
    (call.op = "quote_plus" /\ ~ret.raised /\ call.args[5] = "unicode") =>
        ret.v = ClaimedPlus(call.args[1], call.args[4])

\* 'a a' was encoded by the plus variant under its default safe '' and
\* the space came out as '%20'
SpaceEscaped ==
    /\ call.op = "quote_plus"
    /\ call.args = << <<97, 32, 97>>, "str", "None", <<>>, "str" >>
    /\ ret.v = <<97, 37, 50, 48, 97>>

(***************************************************************************)
(* Decompose calls of several threads, interleaved without a lock.  Every  *)
(* operation on a dict is one step; what a thread holds in its locals      *)
(* (key, position) is in call[t], what its call returned in ret[t].        *)
(***************************************************************************)
Threads == {"t1", "t2"}

\* the keys a thread asks for besides the URIs of the walk
ThreadKeys ==
    { <<UriA, <<>>, TRUE, "str", "str">>, <<UriA, <<>>, FALSE, "str", "str">>,
      <<UriBad, <<>>, TRUE, "str", "str">> }

\* the cache after a sequential walk over the first n URIs
WarmCache(n) ==
    [k \in {<<Walk(j), <<>>, TRUE, "str", "str">> : j \in 1..n} |->
        SplitBody(k[1], k[2], k[3]).v]

InitThreads ==
    /\ _parse_cache = WarmCache(WarmWalk)
    /\ _safe_quoters = EmptyMap
    /\ call = [t \in Threads |-> [op |-> "none", args |-> <<>>, at |-> "idle"]]
    /\ ret = [t \in Threads |-> NoRet]
    /\ hits = <<>>
    /\ evicted = {}
    /\ merged = <<>>
    /\ cursor = WarmWalk

\* thread t is at position at of a urlsplit call with arguments args
At(t, args, at) ==
    call' = [call EXCEPT ![t] = [op |-> "urlsplit", args |-> args, at |-> at]]

\* the key of thread t's call, line 322
KeyOf(t) ==
    CacheKey(call[t].args[1], call[t].args[2], call[t].args[3],
             call[t].args[4], call[t].args[5])

\* thread t enters urlsplit with one of the fixed keys
Enter(t) ==
    /\ call[t].at = "idle"
    /\ \E a \in ThreadKeys : At(t, a, "get")
    /\ UNCHANGED <<_parse_cache, _safe_quoters, ret, hits, evicted, merged,
                   cursor>>

\* thread t enters urlsplit with the next URI of the walk
EnterWalk(t) ==
    /\ call[t].at = "idle"
    /\ cursor < MaxWalk
    /\ At(t, <<Walk(cursor + 1), <<>>, TRUE, "str", "str">>, "get")
    /\ cursor' = cursor + 1
    /\ UNCHANGED <<_parse_cache, _safe_quoters, ret, hits, evicted, merged>>

\* lines 323-325: _parse_cache.get(key), and the return on a hit
Lookup(t) ==
    /\ call[t].at = "get"
    /\ IF KeyOf(t) \in DOMAIN _parse_cache
       THEN /\ At(t, call[t].args, "idle")
            /\ ret' = [ret EXCEPT ![t] =
                          [raised |-> FALSE, v |-> _parse_cache[KeyOf(t)]]]
       ELSE /\ At(t, call[t].args, "len")
            /\ UNCHANGED ret
    /\ UNCHANGED <<_parse_cache, _safe_quoters, hits, evicted, merged, cursor>>

\* line 326: len(_parse_cache) >= MAX_CACHE_SIZE
TestFull(t) ==
    /\ call[t].at = "len"
    /\ At(t, call[t].args,
          IF CacheFull(_parse_cache) THEN "clear" ELSE "compute")
    /\ UNCHANGED <<_parse_cache, _safe_quoters, ret, hits, evicted, merged,
                   cursor>>

\* line 90: _parse_cache.clear()
ClearParseCache(t) ==
    /\ call[t].at = "clear"
    /\ _parse_cache' = EmptyMap
    /\ At(t, call[t].args, "clear quoters")
    /\ UNCHANGED <<_safe_quoters, ret, hits, evicted, merged, cursor>>

\* line 91: _safe_quoters.clear()
ClearQuoters(t) ==
    /\ call[t].at = "clear quoters"
    /\ _safe_quoters' = EmptyMap
    /\ At(t, call[t].args, "compute")
    /\ UNCHANGED <<_parse_cache, ret, hits, evicted, merged, cursor>>

\* lines 328-362: the result, computed in locals, is stored and returned,
\* or the exception leaves the call
Store(t) ==
    /\ call[t].at = "compute"
    /\ LET r == SplitBody(call[t].args[1], call[t].args[2], call[t].args[3])
       IN  /\ _parse_cache' = IF r.raised THEN _parse_cache
                              ELSE (KeyOf(t) :> r.v) @@ _parse_cache
           /\ ret' = [ret EXCEPT ![t] = r]
    /\ At(t, call[t].args, "idle")
    /\ UNCHANGED <<_safe_quoters, hits, evicted, merged, cursor>>

NextThreads ==
    \E t \in Threads :
        \/ Enter(t) \/ EnterWalk(t) \/ Lookup(t) \/ TestFull(t)
        \/ ClearParseCache(t) \/ ClearQuoters(t) \/ Store(t)

SpecThreads == InitThreads /\ [][NextThreads]_vars

\* what a sequential decompose returns for key k, told from the text
SequentialSplit(k) ==
    IF CarriesScheme(k[1])
    THEN <<Lower(SubSeq(k[1], 1, FirstAt(k[1], ":") - 1))>>
         \o ComponentsOf(SubSeq(k[1], FirstAt(k[1], ":") + 1, Len(k[1])),
                         k[3])
    ELSE <<k[2]>> \o ComponentsOf(k[1], k[3])

\* C14: when decompose calls of several threads interleave without a
\* lock, in every reachable state each entry of the decomposition cache
\* maps its key to exactly the components a sequential decompose of that
\* key returns.
EntriesNeverCorrupted ==
    \A k \in DOMAIN _parse_cache : _parse_cache[k] = SequentialSplit(k)

\* an update was lost: a thread has stored and returned its result, and
\* the clear of another thread, begun before, has removed the entry
UpdateLost ==
    \E t \in Threads :
        /\ call[t].op = "urlsplit" /\ call[t].at = "idle"
        /\ ~ret[t].raised
        /\ KeyOf(t) \notin DOMAIN _parse_cache
        /\ \E u \in Threads \ {t} : call[u].at = "clear quoters"

(***************************************************************************)
(* The overflow clear and a failing decompose.                             *)
(***************************************************************************)
\* C15 as stated: a decompose call that fails with InvalidAuthority
\* leaves the decomposition cache and the quoter tables exactly as they
\* were before the call, also when the cache already holds 20 entries.
FailureLeavesCaches ==
    [][ (call'.op = "urlsplit" /\ ret'.raised)
           => /\ _parse_cache' = _parse_cache
              /\ _safe_quoters' = _safe_quoters
      ]_vars

\* C15: the overflow clear happens before the result is computed: a
\* decompose call that fails with InvalidAuthority leaves the
\* decomposition cache and the quoter tables exactly as they were before
\* the call when the cache holds fewer than 20 entries, and leaves both
\* empty when the cache holds 20 entries.
FailureClearsFullCache ==
    [][ (call'.op = "urlsplit" /\ ret'.raised)
           => IF Cardinality(DOMAIN _parse_cache) >= MAX_CACHE_SIZE
              THEN /\ _parse_cache' = EmptyMap
                   /\ _safe_quoters' = EmptyMap
              ELSE /\ _parse_cache' = _parse_cache
                   /\ _safe_quoters' = _safe_quoters
      ]_vars

\* a decompose has failed on a cache of 20 entries, which it discarded
FailedOnFullCache ==
    /\ call.op = "urlsplit"
    /\ ret.raised
    /\ Cardinality(evicted) = MAX_CACHE_SIZE
    /\ _parse_cache = EmptyMap
    /\ _safe_quoters = EmptyMap

(***************************************************************************)
(* Transparency of the cache.                                              *)
(***************************************************************************)
\* what the decompose call of this state returns on empty caches
OnEmptyCaches ==
    urlsplit([cache |-> EmptyMap, quoters |-> EmptyMap], call.args[1],
             call.args[2], call.args[3], call.args[4], call.args[5])

\* C16: the cache is transparent: the outcome of a decompose (the
\* returned components, or InvalidAuthority) after any prior sequence of
\* decompose, parse, resolve, stripFragment, percentEncode and resetCaches
\* calls is its outcome on an empty cache.
CacheTransparent ==
    (call.op = "urlsplit") =>
        /\ ret.raised = OnEmptyCaches.raised
        /\ ret.v = OnEmptyCaches.v

\* a decompose without fragment splitting was served from a cache that
\* also holds the same text decomposed with fragment splitting
ServedFromCache ==
    /\ call.op = "urlsplit"
    /\ hits = <<TRUE>>
    /\ call.args = <<UriA, <<>>, FALSE, "str", "str">>
    /\ <<UriA, <<>>, TRUE, "unicode", "str">> \in DOMAIN _parse_cache

(***************************************************************************)
(* Clamping at the root.                                                   *)
(***************************************************************************)
\* the path of a URI, told from the text
PathOf(url, af) == ComponentsOf(AfterScheme(url), af)[2]

\* resolve has merged a relative-path reference with a base whose path
\* begins with '/'
MergedRelative ==
    /\ call.op = "urljoin"
    /\ merged # <<>>
    /\ Slice(PathOf(call.args[1], call.args[3]), 0, 1) = <<"/">>
    /\ Slice(PathOf(call.args[2], call.args[3]), 0, 1) # <<"/">>

\* C17 as stated: when resolve merges a relative-path reference against a
\* base whose path begins with '/', the path of the resolved URI begins
\* with '/', for every number of '..' segments in the reference and
\* whether or not the base has an authority.
ClampedAtRoot ==
    MergedRelative =>
        /\ ~ret.raised
        /\ Slice(PathOf(ret.v, call.args[3]), 0, 1) = <<"/">>

\* C17 for a base that has a scheme or an authority: there the path of
\* the resolved URI begins with '/'.
ClampedAtRootUnderScheme ==
    ( /\ MergedRelative
      /\ \/ SchemeOf(call.args[1], <<>>) # <<>>
         \/ HasAuthority(call.args[1]) )
    => /\ ~ret.raised
       /\ Slice(PathOf(ret.v, call.args[3]), 0, 1) = <<"/">>

\* '../a' was resolved against '/a' and the result is the relative 'a'
ResolvedBelowRoot ==
    /\ call.op = "urljoin"
    /\ call.args[1] = <<"/", "a">>
    /\ call.args[2] = <<".", ".", "/", "a">>
    /\ merged = << <<"a">> >>
    /\ ret.v = <<"a">>

(***************************************************************************)
(* Delimiters in the components of a result.                               *)
(***************************************************************************)
\* the number of c in s
CountOf(s, c) == Cardinality({j \in 1..Len(s) : s[j] = c})

\* C18: in every result returned by decompose the authority contains none
\* of '/', '?', '#' and ends at the earliest of them after the leading
\* '//'; the path contains no '?'; when allowFragments is true neither
\* path nor query contains '#' and the fragment is the text after the
\* first '#' of the remainder; when allowFragments is false the fragment
\* is empty and every '#' stays in the path or the query.
DelimitersSeparate ==
    (call.op = "urlsplit" /\ ~ret.raised) =>
        LET rest == AfterScheme(call.args[1])
            slashes == Slice(rest, 0, 2) = <<"/", "/">>
            tail == IF slashes
                    THEN SubSeq(rest, Len(ret.v[2]) + 3, Len(rest))
                    ELSE rest
        IN  /\ \A c \in {"/", "?", "#"} : ~In(c, ret.v[2])
            /\ ret.v[2] = IF slashes THEN AuthorityOf(rest) ELSE <<>>
            /\ ~In("?", ret.v[3])
            /\ IF call.args[3]
               THEN /\ ~In("#", ret.v[3]) /\ ~In("#", ret.v[4])
                    /\ ret.v[5] = SubSeq(tail, FirstAt(tail, "#") + 1,
                                         IF In("#", tail)
                                         THEN Len(tail) ELSE 0)
               ELSE /\ ret.v[5] = <<>>
                    /\ CountOf(ret.v[3], "#") + CountOf(ret.v[4], "#")
                          = CountOf(call.args[1], "#")

\* with fragments disabled a '#' stayed in the path and another in the
\* query, after an authority
HashKeptInPathAndQuery ==
    /\ call.op = "urlsplit"
    /\ ~ret.raised
    /\ ~call.args[3]
    /\ ret.v[2] # <<>>
    /\ In("#", ret.v[3])
    /\ In("#", ret.v[4])

====
